---------------------------- MODULE Spec2Model ----------------------------
(***************************************************************************)
(* NeuroStamp: a two-level Haar-wavelet watermark codec (src/src/core.py), *)
(* its keyed permutation, payload encoding and fingerprint distance        *)
(* (src/src/utils.py), and the stamp registry of the web layer             *)
(* (src/main.py, src/src/database.py).                                     *)
(*                                                                         *)
(* Numbers.  Coefficients are reals in the program.  Here a real x is the  *)
(* integer x * Unit, Unit = 2^6 = 64: a value passes through at most six   *)
(* Haar halvings (two forward levels, two inverse levels, two forward      *)
(* levels again at extraction), so every halving below is exact.           *)
(* Floating-point rounding is not modelled.                                *)
(*                                                                         *)
(* Sequences are 1-based; the program's 0-based indices are kept as values *)
(* (a permutation holds 0..N-1) and shifted by one where a sequence is     *)
(* subscripted.  Strings are sequences of code points.  An absent          *)
(* argument or value (None) is the empty sequence, a present one <<v>>.    *)
(***************************************************************************)
EXTENDS Integers, Sequences, FiniteSets, TLC

VARIABLES
    op,          \* the operation that ran last ("idle" after construction)
    channel,     \* codec: the channel matrix handed to embed_channel
    payload,     \* codec: binary_watermark, a sequence of bits
    alpha,       \* codec: embedding strength
    secret,      \* codec: secret_key handed to embed_channel
    emb,         \* codec: what embed_channel returned (or raised)
    xargs,       \* codec: the arguments of the last extract call
    ext,         \* codec: what that extract call returned (or raised)
    rng,         \* random: state of the process-wide generator
    calls,       \* the get_scrambled_indices calls made so far, in order
    users,       \* table users: the rows [username, user_uid, encrypted_key_data]
    registry,    \* table image_registry: rows [image_hash, owner_uid], by id
    req,         \* the request handled last
    resp,        \* and the response it got
    embedded,    \* per username: <<key_coeffs>> of the last embed for it
    sessions,    \* stamp requests in flight in worker processes, by worker
    arg,         \* utils: argument(s) of the last utility call
    res          \* utils: its result

codecVars == <<channel, payload, alpha, secret, emb, xargs, ext>>
permVars == <<rng, calls>>
webVars == <<users, registry, req, resp, embedded, sessions>>
utilVars == <<arg, res>>

vars == <<op, codecVars, permVars, webVars, utilVars>>

-----------------------------------------------------------------------------
(* Bounds of the model.                                                    *)

\* longest payload, in bits, handed to embed_channel
MaxBits == 2

-----------------------------------------------------------------------------
(* Numbers and small helpers.                                              *)

\* one, in the units coefficients are counted in
Unit == 2 ^ 6

Abs(n) == IF n < 0 THEN -n ELSE n

RECURSIVE SumSeq(_)
SumSeq(s) == IF s = <<>> THEN 0 ELSE Head(s) + SumSeq(Tail(s))

Range0(n) == [i \in 1..n |-> i - 1]

-----------------------------------------------------------------------------
(* random: the process-wide generator of Python's random module.  The      *)
(* Mersenne Twister is replaced by a 16-bit linear congruential generator: *)
(* what the program relies on is kept (the state after seed(n) is a        *)
(* function of n alone, every draw advances the state, randbelow(k) is in  *)
(* [0, k)), the actual numbers are not.                                    *)

RngModulus == 2 ^ 16

\* random.seed(n) for an int n: the state depends on abs(n) only
rng_seed(n) == (Abs(n) * 40503 + 977) % RngModulus

rng_next(s) == (s * 25173 + 13849) % RngModulus

\* the k of random._randbelow(k) drawn from state s (after advancing it)
rng_below(s, k) == (rng_next(s) \div 256) % k

\* one pass of the loop of random.shuffle(x), generator state s:
\*   j = randbelow(i + 1); x[i], x[j] = x[j], x[i]        (i 0-based)
shuffle_step(x, s, i) ==
    LET j == rng_below(s, i + 1)
    IN  [list |-> [x EXCEPT ![i + 1] = x[j + 1], ![j + 1] = x[i + 1]],
         rng |-> rng_next(s)]

\* the passes i = hi, hi - 1, ..., lo of that loop, in this order (the
\* range is halved, and the first half's state looked at before the second
\* half starts, only to keep the evaluation shallow); returns the list and
\* the generator state left behind
RECURSIVE shuffle_range(_, _, _, _)
shuffle_range(x, s, hi, lo) ==
    IF hi < lo THEN [list |-> x, rng |-> s]
    ELSE IF hi = lo THEN shuffle_step(x, s, hi)
    ELSE LET mid == (hi + lo) \div 2
             first == shuffle_range(x, s, hi, mid + 1)
         IN  IF first.rng \notin 0..(RngModulus - 1) THEN first
             ELSE shuffle_range(first.list, first.rng, mid, lo)

\* random.shuffle(x): for i in reversed(range(1, len(x))): ...
shuffle(x, s) == shuffle_range(x, s, Len(x) - 1, 1)

\* seed_of with the characters of a string weighted by their position
seed_of_positional(seed_key) ==
    IF seed_key.kind = "str"
    THEN SumSeq([i \in 1..Len(seed_key.val) |-> i * seed_key.val[i]])
    ELSE IF seed_key.kind = "list" THEN SumSeq(seed_key.val)
    ELSE seed_key.val

\* the seed get_scrambled_indices folds a key into; a key is
\* [kind |-> "str" | "list" | "int", val |-> ...]
seed_of(seed_key) ==
    IF seed_key.kind = "str" THEN SumSeq(seed_key.val)
    ELSE IF seed_key.kind = "list" THEN SumSeq(seed_key.val)
    ELSE seed_key.val

\* scramble without the call of random.seed: the shuffle draws from the
\* generator as the last call left it
scramble_unseeded(length, seed_key, g) == shuffle(Range0(length), g)

\* get_scrambled_indices as a step on the generator: g is the generator
\* state when it is called (overwritten by random.seed)
scramble(length, seed_key, g) ==
    shuffle(Range0(length), rng_seed(seed_of(seed_key)))

get_scrambled_indices(length, seed_key) == scramble(length, seed_key, 0).list

StrKey(s) == [kind |-> "str", val |-> s]

-----------------------------------------------------------------------------
(* Text and fingerprint utilities, src/src/utils.py.  A bit string is a    *)
(* sequence of 0s and 1s (the characters "0" and "1").                     *)

\* bin(n)[2:] for n >= 0: binary digits, most significant first
RECURSIVE bin_digits(_)
bin_digits(n) == IF n < 2 THEN <<n>> ELSE Append(bin_digits(n \div 2), n % 2)

\* str.zfill(width) on a digit string
zfill(digits, width) ==
    IF Len(digits) >= width THEN digits
    ELSE [i \in 1..(width - Len(digits)) |-> 0] \o digits

\* format(n, '08b'): at least 8 binary digits
format_08b(n) == zfill(bin_digits(n), 8)

\* int(bits, 2)
RECURSIVE int_base2(_)
int_base2(bits) ==
    IF bits = <<>> THEN 0
    ELSE 2 * int_base2(SubSeq(bits, 1, Len(bits) - 1)) + bits[Len(bits)]

\* "".join(format(ord(c), '08b') for c in text); text is a sequence of
\* code points.  embed_watermark builds binary_msg by the same expression.
RECURSIVE text_to_binary(_)
text_to_binary(text) ==
    IF text = <<>> THEN <<>>
    ELSE format_08b(Head(text)) \o text_to_binary(Tail(text))

\* binary_to_text: chunks of 8 from the left; a chunk of 8 bits becomes
\* chr(int(chunk, 2)), a shorter (last) chunk is left out
RECURSIVE binary_to_text(_)
binary_to_text(binary) ==
    IF binary = <<>> THEN <<>>
    ELSE IF Len(binary) < 8 THEN <<>>
    ELSE <<int_base2(SubSeq(binary, 1, 8))>>
         \o binary_to_text(SubSeq(binary, 9, Len(binary)))

\* value of one hexadecimal digit character, as int(s, 16) reads it
hex_value(c) ==
    IF c >= 48 /\ c <= 57 THEN c - 48
    ELSE IF c >= 97 /\ c <= 102 THEN c - 87
    ELSE c - 55

\* int(hex_str, 16)
RECURSIVE int_base16(_)
int_base16(hex_str) ==
    IF hex_str = <<>> THEN 0
    ELSE 16 * int_base16(SubSeq(hex_str, 1, Len(hex_str) - 1))
         + hex_value(hex_str[Len(hex_str)])

\* hex(n)[2:] for n >= 0: lower-case digits, no leading zeros
RECURSIVE hex_digits(_)
hex_digits(n) ==
    LET d == n % 16
        c == IF d < 10 THEN 48 + d ELSE 87 + d
    IN  IF n < 16 THEN <<c>> ELSE Append(hex_digits(n \div 16), c)

\* hex_to_binary without the zfill
hex_to_binary_unpadded(hex_str) == bin_digits(int_base16(hex_str))

\* hex_to_binary
hex_to_binary(hex_str) ==
    LET num_of_bits == Len(hex_str) * 4
    IN  zfill(bin_digits(int_base16(hex_str)), num_of_bits)

\* the pairs zip(bin1, bin2) yields
zip_len(bin1, bin2) == IF Len(bin1) < Len(bin2) THEN Len(bin1) ELSE Len(bin2)

calculate_hamming_distance(hash1, hash2) ==
    IF Len(hash1) # Len(hash2) THEN 100
    ELSE LET bin1 == hex_to_binary(hash1)
             bin2 == hex_to_binary(hash2)
         IN  Cardinality({i \in 1..zip_len(bin1, bin2) : bin1[i] # bin2[i]})

\* the end of compute_dhash: the string of comparison bits (diff_hash) to
\* the stored hexadecimal string.  The luminance resize that produces the
\* bits is not modelled: an image carries its bits.
compute_dhash(diff_hash) == hex_digits(int_base2(diff_hash))

-----------------------------------------------------------------------------
(* Transform engine: pywt.dwt2 / pywt.idwt2 with the Haar wavelet and      *)
(* pywt's default signal extension (mode "symmetric": an odd-length axis   *)
(* is extended by repeating its last sample).  A matrix is a sequence of   *)
(* rows of equal length.                                                   *)

Rows(m) == Len(m)
Cols(m) == IF Len(m) = 0 THEN 0 ELSE Len(m[1])

\* number of coefficients pywt keeps for an axis of n samples
Half(n) == (n + 1) \div 2

\* the sample read at 1-based position i of an axis of n samples
Ext(i, n) == IF i > n THEN n ELSE i

\* dwt2 returns cA, (cH, cV, cD); core.py names them LL, (LH, HL, HH).
\* cH ("da") is the detail along axis 0 of the approximation along axis 1.
apply_dwt(m) ==
    LET h == Rows(m)
        w == Cols(m)
        x00(i, j) == m[Ext(2 * i - 1, h)][Ext(2 * j - 1, w)]
        x01(i, j) == m[Ext(2 * i - 1, h)][Ext(2 * j, w)]
        x10(i, j) == m[Ext(2 * i, h)][Ext(2 * j - 1, w)]
        x11(i, j) == m[Ext(2 * i, h)][Ext(2 * j, w)]
    IN  [LL |-> [i \in 1..Half(h) |-> [j \in 1..Half(w) |->
                    (x00(i, j) + x01(i, j) + x10(i, j) + x11(i, j)) \div 2]],
         LH |-> [i \in 1..Half(h) |-> [j \in 1..Half(w) |->
                    (x00(i, j) + x01(i, j) - x10(i, j) - x11(i, j)) \div 2]],
         HL |-> [i \in 1..Half(h) |-> [j \in 1..Half(w) |->
                    (x00(i, j) - x01(i, j) + x10(i, j) - x11(i, j)) \div 2]],
         HH |-> [i \in 1..Half(h) |-> [j \in 1..Half(w) |->
                    (x00(i, j) - x01(i, j) - x10(i, j) + x11(i, j)) \div 2]]]

\* idwt2 of four sub-bands of one shape: twice as many rows and columns
inverse_dwt(LL, LH, HL, HH) ==
    LET a(r, c) == LL[(r + 1) \div 2][(c + 1) \div 2]
        dv(r, c) == LH[(r + 1) \div 2][(c + 1) \div 2]
        dh(r, c) == HL[(r + 1) \div 2][(c + 1) \div 2]
        dd(r, c) == HH[(r + 1) \div 2][(c + 1) \div 2]
        sr(r) == IF r % 2 = 1 THEN 1 ELSE -1
    IN  [r \in 1..(2 * Rows(LL)) |-> [c \in 1..(2 * Cols(LL)) |->
            (a(r, c) + sr(r) * dv(r, c) + sr(c) * dh(r, c)
                     + sr(r) * sr(c) * dd(r, c)) \div 2]]

\* ndarray.flatten(): row-major
flatten(m) ==
    LET w == Cols(m)
    IN  [k \in 1..(Rows(m) * w) |-> m[((k - 1) \div w) + 1][((k - 1) % w) + 1]]

\* ndarray.reshape((h, w))
reshape(v, h, w) == [i \in 1..h |-> [j \in 1..w |-> v[(i - 1) * w + j]]]

\* m[:h, :w]
crop(m, h, w) ==
    LET hh == IF h < Rows(m) THEN h ELSE Rows(m)
        ww == IF w < Cols(m) THEN w ELSE Cols(m)
    IN  [i \in 1..hh |-> [j \in 1..ww |-> m[i][j]]]

-----------------------------------------------------------------------------
(* Watermark codec, src/src/core.py.                                       *)

start_pos == 100

\* the loop of embed_channel with additive embedding only: a 1 adds alpha,
\* a 0 leaves the slot alone
RECURSIVE embed_loop_unipolar(_, _, _, _, _, _)
embed_loop_unipolar(flat_target, full_len, binary_watermark, a, scrambled_indices, i) ==
    IF i >= full_len \/ start_pos + i >= Len(scrambled_indices) THEN flat_target
    ELSE LET target_idx == scrambled_indices[start_pos + i + 1]
             bit == binary_watermark[(i % Len(binary_watermark)) + 1]
             v == flat_target[target_idx + 1]
         IN  embed_loop_unipolar(
                 [flat_target EXCEPT ![target_idx + 1] =
                     IF bit = 1 THEN v + a ELSE v],
                 full_len, binary_watermark, a, scrambled_indices, i + 1)

\* the loop of embed_channel from message position i on (0-based)
RECURSIVE embed_loop(_, _, _, _, _, _)
embed_loop(flat_target, full_len, binary_watermark, a, scrambled_indices, i) ==
    IF i >= full_len \/ start_pos + i >= Len(scrambled_indices) THEN flat_target
    ELSE LET target_idx == scrambled_indices[start_pos + i + 1]
             bit == binary_watermark[(i % Len(binary_watermark)) + 1]
             v == flat_target[target_idx + 1]
         IN  embed_loop(
                 [flat_target EXCEPT ![target_idx + 1] =
                     IF bit = 1 THEN v + a ELSE v - a],
                 full_len, binary_watermark, a, scrambled_indices, i + 1)

\* embed_channel: [status, watermarked_channel, original_coeffs]; a is
\* alpha in Unit-ths.  The record also keeps flat_target, the local vector
\* as the loop leaves it (line 55), which the function reshapes and
\* transforms back.
embed_channel(channel_matrix, binary_watermark, a, secret_key) ==
    LET d1 == apply_dwt(channel_matrix)
        d2 == apply_dwt(d1.LL)
        original_coeffs == flatten(d2.LH)
        max_slots == Len(original_coeffs)
        scrambled_indices == get_scrambled_indices(max_slots, secret_key)
        available_space == max_slots - start_pos
        n == available_space \div Len(binary_watermark)
        num_repeats == IF n < 1 THEN 1 ELSE n
        flat_target == embed_loop(original_coeffs,
                                  Len(binary_watermark) * num_repeats,
                                  binary_watermark, a, scrambled_indices, 0)
        modified_LH2 == reshape(flat_target, Rows(d2.LH), Cols(d2.LH))
        modified_LL1 == crop(inverse_dwt(d2.LL, modified_LH2, d2.HL, d2.HH),
                             Rows(d1.LH), Cols(d1.LH))
    IN  IF Len(binary_watermark) = 0
        THEN [status |-> "ZeroDivisionError",
              watermarked_channel |-> <<>>, original_coeffs |-> <<>>,
              flat_target |-> <<>>]
        ELSE [status |-> "ok",
              watermarked_channel |->
                  inverse_dwt(modified_LL1, d1.LH, d1.HL, d1.HH),
              original_coeffs |-> original_coeffs,
              flat_target |-> flat_target]

\* what repeat r adds to vote_score[i] (i, r 0-based)
vote(flat_target, key, scrambled_indices, length, r, i) ==
    LET abs_idx == start_pos + (r * length) + i
    IN  IF abs_idx >= Len(scrambled_indices) THEN 0
        ELSE LET target_idx == scrambled_indices[abs_idx + 1]
             IN  IF target_idx >= Len(key) THEN 0
                 ELSE flat_target[target_idx + 1] - key[target_idx + 1]

RECURSIVE vote_sum(_, _, _, _, _, _)
vote_sum(flat_target, key, scrambled_indices, length, r, i) ==
    IF r < 0 THEN 0
    ELSE vote(flat_target, key, scrambled_indices, length, r, i)
         + vote_sum(flat_target, key, scrambled_indices, length, r - 1, i)

\* extract_channel from its voting on: flat_target is the flattened
\* sub-band, scrambled_indices the permutation; length is <<>> (None) or
\* <<n>>.  Dividing by None raises TypeError, by 0 ZeroDivisionError.
extract_vote(flat_target, key, length, scrambled_indices) ==
    LET max_slots == Len(flat_target)
        available_space == max_slots - start_pos
        len == length[1]
        n == available_space \div len
        num_repeats == IF n < 1 THEN 1 ELSE n
    IN  IF length = <<>> THEN [status |-> "TypeError", bits |-> <<>>]
        ELSE IF len = 0 THEN [status |-> "ZeroDivisionError", bits |-> <<>>]
        ELSE [status |-> "ok",
              bits |-> [i \in 1..len |->
                  IF vote_sum(flat_target, key, scrambled_indices, len,
                              num_repeats - 1, i - 1) > 0
                  THEN 1 ELSE 0]]

\* the sub-band extract_channel votes on
extract_target(channel_matrix) == flatten(apply_dwt(apply_dwt(channel_matrix).LL).LH)

extract_channel(channel_matrix, key, a, length, secret_key) ==
    LET flat_target == extract_target(channel_matrix)
    IN  extract_vote(flat_target, key, length,
                     get_scrambled_indices(Len(flat_target), secret_key))

\* extract_watermark(image, key, alpha, length=None, username): the Y
\* channel of the image goes to extract_channel with length as given
extract_watermark(y_array, key, a, length, username) ==
    extract_channel(y_array, key, a, length, StrKey(username))

\* embed_watermark(image, watermark_text, alpha, username) on the Y
\* channel of the image; what it returns as key is original_coeffs as a
\* list.  The colour conversion, and the clipping of the watermarked
\* channel to 8-bit samples, are not modelled.
embed_watermark(y_array, watermark_text, a, username) ==
    LET binary_msg == text_to_binary(watermark_text)
    IN  embed_channel(y_array, binary_msg, a, StrKey(username))

-----------------------------------------------------------------------------
(* Persistence, src/src/database.py.  Fernet and json are stand-ins that   *)
(* keep what is used: decrypt undoes encrypt, loads undoes dumps.          *)

json_dumps(data_list) == [json |-> data_list]
json_loads(json_str) == json_str.json

encrypt(plain) == [token |-> plain]
decrypt(cipher) == cipher.token

\* set_key_data that keeps a key already stored
set_key_data_once(user, data_list) ==
    IF data_list = <<>> \/ user.encrypted_key_data # <<>> THEN user
    ELSE [user EXCEPT !.encrypted_key_data = <<encrypt(json_dumps(data_list[1]))>>]

\* User.set_key_data on a users row; data_list is <<>> (None) or <<list>>
set_key_data(user, data_list) ==
    IF data_list = <<>> THEN user
    ELSE [user EXCEPT !.encrypted_key_data = <<encrypt(json_dumps(data_list[1]))>>]

\* User.get_key_data: <<>> (None) or <<list>>
get_key_data(user) ==
    IF user.encrypted_key_data = <<>> THEN <<>>
    ELSE <<json_loads(decrypt(user.encrypted_key_data[1]))>>

-----------------------------------------------------------------------------
(* Values the runs start from.                                             *)

NoCall == [status |-> "none"]

CodecIdle ==
    /\ channel = <<>>
    /\ payload = <<>>
    /\ alpha = 0
    /\ secret = <<>>
    /\ emb = NoCall
    /\ xargs = NoCall
    /\ ext = NoCall

PermIdle == rng = 0 /\ calls = <<>>

WebIdle ==
    /\ users = {}
    /\ registry = <<>>
    /\ req = NoCall
    /\ resp = NoCall
    /\ embedded = <<>>
    /\ sessions = <<>>

UtilIdle == arg = <<>> /\ res = <<>>

-----------------------------------------------------------------------------
(* Codec runs: one embed_channel call, then an extract call on its output. *)

\* channel shapes (height, width) tried; N = Half(h/2) * Half(w/2)
Shapes == {<<4, 8>>, <<2, 408>>, <<4, 404>>, <<4, 408>>, <<4, 406>>, <<6, 204>>}

\* an h x w channel of 8-bit samples, picture k
Image(h, w, k) ==
    [r \in 1..h |-> [c \in 1..w |-> ((r * 37 + c * 11 + k * r * r) % 256) * Unit]]

\* "ab", "ba", "c"
Secrets == {<<97, 98>>, <<98, 97>>, <<99>>}

Alphas == {1, 40}

RECURSIVE BitSeqs(_)
BitSeqs(n) ==
    IF n = 0 THEN {<<>>}
    ELSE BitSeqs(n - 1) \cup
         {Append(b, x) : b \in {c \in BitSeqs(n - 1) : Len(c) = n - 1}, x \in {0, 1}}

\* N of a channel: the length of its level-2 sub-band
sub_band_len(m) == Half(Half(Rows(m))) * Half(Half(Cols(m)))

CodecInit ==
    /\ op = "idle"
    /\ \E s \in Shapes : channel = Image(s[1], s[2], 0)
    /\ payload \in BitSeqs(MaxBits) \ {<<>>}
    /\ alpha \in Alphas
    /\ secret \in Secrets
    /\ emb = NoCall
    /\ xargs = NoCall
    /\ ext = NoCall
    /\ PermIdle /\ WebIdle /\ UtilIdle

Embed ==
    /\ op = "idle"
    /\ emb' = embed_channel(channel, payload, alpha * Unit, StrKey(secret))
    /\ rng' = scramble(sub_band_len(channel), StrKey(secret), rng).rng
    /\ op' = "embed"
    /\ UNCHANGED <<channel, payload, alpha, secret, xargs, ext>>
    /\ UNCHANGED <<calls, webVars, utilVars>>

\* the reference vectors an extract call is given: the one embed returned,
\* a shorter one (its first start_pos entries, or its first half), none
RefKinds == {"returned", "short", "empty"}

RefVector(kind) ==
    IF kind = "returned" THEN emb.original_coeffs
    ELSE IF kind = "short"
    THEN SubSeq(emb.original_coeffs, 1,
                IF Len(emb.original_coeffs) < start_pos
                THEN Len(emb.original_coeffs) \div 2 ELSE start_pos)
    ELSE <<>>

\* payloadBitLength: unset (extract_watermark's default None) or a number
Lengths == {<<>>} \cup {<<n>> : n \in 0..(MaxBits + 1)}

\* extract_channel(emb.watermarked_channel, key, alpha, length, k), with
\* the decomposition and the permutation each computed once
Extract ==
    /\ op = "embed"
    /\ emb.status = "ok"
    /\ \E flat_target \in {extract_target(emb.watermarked_channel)}, k \in Secrets :
         \E sc \in {scramble(Len(flat_target), StrKey(k), rng)} :
           \E kind \in RefKinds, length \in Lengths :
              /\ xargs' = [status |-> "called", key |-> kind,
                           length |-> length, secret_key |-> k]
              /\ ext' = extract_vote(flat_target, RefVector(kind), length, sc.list)
              /\ rng' = sc.rng
    /\ op' = "extract"
    /\ UNCHANGED <<channel, payload, alpha, secret, emb>>
    /\ UNCHANGED <<calls, webVars, utilVars>>

Init == CodecInit

Next == Embed \/ Extract

Spec == Init /\ [][Next]_vars

-----------------------------------------------------------------------------
(* Permutation runs: get_scrambled_indices called again and again on the   *)
(* one process-wide generator.                                             *)

\* longest list shuffled in these runs
MaxPermLen == 4

\* calls in one run
MaxCalls == 3

\* "ab", "ba" (the same sum), "c", the number 99
PermKeys == {StrKey(<<97, 98>>), StrKey(<<98, 97>>), StrKey(<<99>>),
             [kind |-> "int", val |-> 99]}

\* the generator is seeded from system entropy when the process starts
StartStates == {0, 4711}

PermInit ==
    /\ op = "idle"
    /\ rng \in StartStates
    /\ calls = <<>>
    /\ CodecIdle /\ WebIdle /\ UtilIdle

Permute ==
    /\ Len(calls) < MaxCalls
    /\ \E length \in 0..MaxPermLen, seed_key \in PermKeys :
         \E sc \in {scramble(length, seed_key, rng)} :
            /\ calls' = Append(calls, [length |-> length, seed_key |-> seed_key,
                                       indices |-> sc.list])
            /\ rng' = sc.rng
    /\ op' = "permute"
    /\ UNCHANGED <<codecVars, webVars, utilVars>>

NextPerm == Permute

SpecPerm == PermInit /\ [][NextPerm]_vars

-----------------------------------------------------------------------------
(* Utility runs: one call of a text or fingerprint utility.                *)

\* longest hexadecimal fingerprint string compared
MaxHexLen == 2

\* longest text encoded, in characters
MaxTextLen == 2

RECURSIVE SeqsUpTo(_, _)
SeqsUpTo(S, n) ==
    IF n = 0 THEN {<<>>}
    ELSE SeqsUpTo(S, n - 1) \cup
         {Append(b, x) : b \in {c \in SeqsUpTo(S, n - 1) : Len(c) = n - 1}, x \in S}

\* "0", "1", "7", "8", "a", "f"
HexChars == {48, 49, 55, 56, 97, 102}

HexStrings == SeqsUpTo(HexChars, MaxHexLen) \ {<<>>}

\* NUL, "A", U+00FF, U+0100, U+20AC
TextChars == {0, 65, 255, 256, 8364}

Texts == SeqsUpTo(TextChars, MaxTextLen)

UtilInit ==
    /\ op = "idle"
    /\ \/ \E a \in HexStrings, b \in HexStrings :
             arg = [kind |-> "hashes", hash1 |-> a, hash2 |-> b]
       \/ \E t \in Texts : arg = [kind |-> "text", text |-> t]
    /\ res = <<>>
    /\ CodecIdle /\ PermIdle /\ WebIdle

Distance ==
    /\ op = "idle"
    /\ arg.kind = "hashes"
    /\ res' = calculate_hamming_distance(arg.hash1, arg.hash2)
    /\ op' = "distance"
    /\ UNCHANGED <<arg, codecVars, permVars, webVars>>

Encode ==
    /\ op = "idle"
    /\ arg.kind = "text"
    /\ res' = [bits |-> text_to_binary(arg.text)]
    /\ op' = "encode"
    /\ UNCHANGED <<arg, codecVars, permVars, webVars>>

Decode ==
    /\ op = "encode"
    /\ res' = [bits |-> res.bits, text |-> binary_to_text(res.bits)]
    /\ op' = "decode"
    /\ UNCHANGED <<arg, codecVars, permVars, webVars>>

NextUtil == Distance \/ Encode \/ Decode

SpecUtil == UtilInit /\ [][NextUtil]_vars

-----------------------------------------------------------------------------
(* The web layer, src/main.py: /register and /stamp requests handled one   *)
(* at a time.                                                              *)

\* "ab", "c"
Usernames == {<<97, 98>>, <<99>>}

\* the 12 characters of a uuid4, shortened to one: "1", "2"
Uids == {<<49>>, <<50>>}

\* uploaded pictures: the comparison bits compute_dhash derives from the
\* picture, and its Y channel.  Fingerprints "800", "bff" (10 bits from
\* "800"), "81f" (5 bits from each of them) and "7f" (3 bits from "81f",
\* one hexadecimal digit shorter).
Pictures ==
    {[diff_hash |-> <<1, 0, 0, 0, 0, 0, 0, 0, 0, 0, 0, 0>>, y |-> Image(4, 8, 1)],
     [diff_hash |-> <<1, 0, 1, 1, 1, 1, 1, 1, 1, 1, 1, 1>>, y |-> Image(4, 8, 2)],
     [diff_hash |-> <<1, 0, 0, 0, 0, 0, 0, 1, 1, 1, 1, 1>>, y |-> Image(4, 8, 3)],
     [diff_hash |-> <<0, 0, 0, 0, 0, 1, 1, 1, 1, 1, 1, 1>>, y |-> Image(4, 8, 4)]}

\* is_duplicate that takes only equal fingerprints for duplicates
is_duplicate_exact(hash1, hash2) == calculate_hamming_distance(hash1, hash2) < 1

\* the test of the scan of stamp_image: "Threshold 10 for Fuzzy Matching"
is_duplicate(hash1, hash2) == calculate_hamming_distance(hash1, hash2) < 10

\* db.query(User).filter(User.username == username).first(): <<>> or <<row>>
user_named(username) ==
    IF \E u \in users : u.username = username
    THEN <<CHOOSE u \in users : u.username = username>>
    ELSE <<>>

\* the scan of stamp_image over all_records from row i on: <<>> or <<row>>
RECURSIVE first_match(_, _, _)
first_match(all_records, img_hash, i) ==
    IF i > Len(all_records) THEN <<>>
    ELSE IF is_duplicate(img_hash, all_records[i].image_hash) THEN <<all_records[i]>>
    ELSE first_match(all_records, img_hash, i + 1)

\* f"ID:{user.user_uid}"
watermark_text(user) == <<73, 68, 58>> \o user.user_uid

WebInit ==
    /\ op = "idle"
    /\ users = {}
    /\ registry = <<>>
    /\ req = NoCall
    /\ resp = NoCall
    /\ embedded = [n \in Usernames |-> <<>>]
    /\ sessions = <<>>
    /\ CodecIdle /\ PermIdle /\ UtilIdle

\* register_user; the unique index on user_uid refuses a uuid already used
Register ==
    /\ \E username \in Usernames, random_id \in Uids :
         /\ req' = [kind |-> "register", username |-> username]
         /\ IF user_named(username) # <<>>
            THEN /\ resp' = [status |-> "error", message |-> "User already exists!"]
                 /\ users' = users
            ELSE IF \E u \in users : u.user_uid = random_id
            THEN /\ resp' = [status |-> "error", message |-> "IntegrityError"]
                 /\ users' = users
            ELSE /\ resp' = [status |-> "success", message |-> random_id]
                 /\ users' = users \cup {[username |-> username, user_uid |-> random_id,
                                          encrypted_key_data |-> <<>>]}
    /\ op' = "register"
    /\ UNCHANGED <<registry, embedded, sessions, codecVars, permVars, utilVars>>

\* what stamp_image does once the user is found and nothing conflicts
StampEmbed(user, picture, img_hash, existing_record) ==
    \E e \in {embed_watermark(picture.y, watermark_text(user), 40 * Unit, user.username)} :
       /\ rng' = scramble(sub_band_len(picture.y), StrKey(user.username), rng).rng
       /\ embedded' = [embedded EXCEPT ![user.username] = <<e.original_coeffs>>]
       /\ IF existing_record = <<>>
             /\ \E r \in 1..Len(registry) : registry[r].image_hash = img_hash
          THEN \* the unique index on image_hash refuses the commit
               /\ resp' = [status |-> "error", error |-> "IntegrityError"]
               /\ UNCHANGED <<users, registry>>
          ELSE /\ users' = (users \ {user}) \cup {set_key_data(user, <<e.original_coeffs>>)}
               /\ registry' = IF existing_record = <<>>
                              THEN Append(registry, [image_hash |-> img_hash,
                                                     owner_uid |-> user.user_uid])
                              ELSE registry
               /\ resp' = [status |-> "success", download_url |-> img_hash]

\* stamp_image with the embedding and the key write moved before the
\* registry scan: a refused request has then already stored its key
StampKeyFirst ==
    /\ \E username \in Usernames, picture \in Pictures :
         LET user == user_named(username)
             img_hash == compute_dhash(picture.diff_hash)
             existing_record == first_match(registry, img_hash, 1)
         IN  /\ req' = [kind |-> "stamp", username |-> username, img_hash |-> img_hash]
             /\ IF user = <<>>
                THEN /\ resp' = [status |-> "error",
                                 error |-> "User not found. Register first."]
                     /\ UNCHANGED <<users, registry, embedded, rng>>
                ELSE IF existing_record # <<>>
                        /\ existing_record[1].owner_uid # user[1].user_uid
                THEN \E e \in {embed_watermark(picture.y, watermark_text(user[1]),
                                               40 * Unit, username)} :
                        /\ resp' = [status |-> "error", error |-> "COPYRIGHT CONFLICT"]
                        /\ users' = (users \ {user[1]})
                                    \cup {set_key_data(user[1], <<e.original_coeffs>>)}
                        /\ embedded' = [embedded EXCEPT ![username] = <<e.original_coeffs>>]
                        /\ rng' = scramble(sub_band_len(picture.y), StrKey(username), rng).rng
                        /\ UNCHANGED registry
                ELSE StampEmbed(user[1], picture, img_hash, existing_record)
    /\ op' = "stamp"
    /\ UNCHANGED <<sessions, calls, codecVars, utilVars>>

\* stamp_image
Stamp ==
    /\ \E username \in Usernames, picture \in Pictures :
         LET user == user_named(username)
             img_hash == compute_dhash(picture.diff_hash)
             existing_record == first_match(registry, img_hash, 1)
         IN  /\ req' = [kind |-> "stamp", username |-> username, img_hash |-> img_hash]
             /\ IF user = <<>>
                THEN /\ resp' = [status |-> "error",
                                 error |-> "User not found. Register first."]
                     /\ UNCHANGED <<users, registry, embedded, rng>>
                ELSE IF existing_record # <<>>
                        /\ existing_record[1].owner_uid # user[1].user_uid
                THEN /\ resp' = [status |-> "error", error |-> "COPYRIGHT CONFLICT"]
                     /\ UNCHANGED <<users, registry, embedded, rng>>
                ELSE StampEmbed(user[1], picture, img_hash, existing_record)
    /\ op' = "stamp"
    /\ UNCHANGED <<sessions, calls, codecVars, utilVars>>

NextWeb == Register \/ Stamp

SpecWeb == WebInit /\ [][NextWeb]_vars

-----------------------------------------------------------------------------
(* Two stamp requests in two worker processes on the one database file.    *)
(* stamp_image is a coroutine that never awaits, so one event loop runs it *)
(* from line 77 to line 138 without a switch: requests interleave only    *)
(* between worker processes.  Each worker has its own Session, its own     *)
(* generator and its own User object; a query reads what is committed at   *)
(* that moment (autoflush is off, nothing is written before db.commit()). *)
(* db.commit() flushes the UPDATE of the users row and the INSERT of the   *)
(* registry row and commits them as one SQLite write transaction; SQLite   *)
(* admits one writer at a time, so the flush and commit of one worker are  *)
(* one step here.                                                          *)

Workers == {1, 2}

\* a request as the handler starts on it
NewSession(username, picture) ==
    [pc |-> "lookup", username |-> username, picture |-> picture,
     user |-> <<>>, img_hash |-> <<>>, existing_record |-> <<>>,
     key_coeffs |-> <<>>, new_record |-> <<>>, resp |-> NoCall, rng |-> 0]

\* the users tables register_user can have built: each username at most
\* once, each with a user_uid of its own, no key stored yet
UserTables ==
    UNION {{{[username |-> n, user_uid |-> f[n], encrypted_key_data |-> <<>>] : n \in U} :
              f \in {g \in [U -> Uids] : \A a, b \in U : a # b => g[a] # g[b]}} :
           U \in SUBSET Usernames}

RaceInit ==
    /\ op = "idle"
    /\ users \in UserTables
    /\ registry = <<>>
    /\ req = NoCall
    /\ resp = NoCall
    /\ embedded = [n \in Usernames |-> <<>>]
    /\ sessions \in [Workers -> {NewSession(n, p) : n \in Usernames, p \in Pictures}]
    /\ CodecIdle /\ PermIdle /\ UtilIdle

\* what no step of a worker touches
RaceFrame == UNCHANGED <<req, resp, codecVars, permVars, utilVars>>

\* main.py:77-79, the user query and the answer for an unknown user
RaceLookup(w) ==
    /\ sessions[w].pc = "lookup"
    /\ LET user == user_named(sessions[w].username)
       IN  sessions' = [sessions EXCEPT ![w] =
               IF user = <<>>
               THEN [@ EXCEPT !.pc = "done",
                              !.resp = [status |-> "error",
                                        error |-> "User not found. Register first."]]
               ELSE [@ EXCEPT !.pc = "scan", !.user = user]]
    /\ op' = "stamp"
    /\ UNCHANGED <<users, registry, embedded>>
    /\ RaceFrame

\* main.py:81-111, the fingerprint, the registry query, the scan and the
\* answer for a picture registered to somebody else
RaceScan(w) ==
    /\ sessions[w].pc = "scan"
    /\ LET img_hash == compute_dhash(sessions[w].picture.diff_hash)
           existing_record == first_match(registry, img_hash, 1)
       IN  sessions' = [sessions EXCEPT ![w] =
               IF existing_record # <<>>
                  /\ existing_record[1].owner_uid # sessions[w].user[1].user_uid
               THEN [@ EXCEPT !.pc = "done", !.img_hash = img_hash,
                              !.existing_record = existing_record,
                              !.resp = [status |-> "error",
                                        error |-> "COPYRIGHT CONFLICT"]]
               ELSE [@ EXCEPT !.pc = "embed", !.img_hash = img_hash,
                              !.existing_record = existing_record]]
    /\ op' = "stamp"
    /\ UNCHANGED <<users, registry, embedded>>
    /\ RaceFrame

\* main.py:116-122, embed_watermark and set_key_data on the worker's User
\* object
RaceEmbed(w) ==
    /\ sessions[w].pc = "embed"
    /\ \E e \in {embed_watermark(sessions[w].picture.y,
                                 watermark_text(sessions[w].user[1]), 40 * Unit,
                                 sessions[w].username)} :
          /\ sessions' = [sessions EXCEPT ![w] =
                 [@ EXCEPT !.pc = "add",
                           !.key_coeffs = <<e.original_coeffs>>,
                           !.user = <<set_key_data(@[1], <<e.original_coeffs>>)>>,
                           !.rng = scramble(sub_band_len(sessions[w].picture.y),
                                            StrKey(sessions[w].username), @).rng]]
          /\ embedded' = [embedded EXCEPT ![sessions[w].username] = <<e.original_coeffs>>]
    /\ op' = "stamp"
    /\ UNCHANGED <<users, registry>>
    /\ RaceFrame

\* main.py:125-127, db.add of the new registry row when the scan found none
RaceAdd(w) ==
    /\ sessions[w].pc = "add"
    /\ sessions' = [sessions EXCEPT ![w] =
           [@ EXCEPT !.pc = "commit",
                     !.new_record =
                         IF sessions[w].existing_record = <<>>
                         THEN <<[image_hash |-> sessions[w].img_hash,
                                 owner_uid |-> sessions[w].user[1].user_uid]>>
                         ELSE <<>>]]
    /\ op' = "stamp"
    /\ UNCHANGED <<users, registry, embedded>>
    /\ RaceFrame

\* main.py:129-138, db.commit() and the answer.  The unique index on
\* image_hash (database.py:61) refuses a second row with the same
\* fingerprint: commit raises IntegrityError, the transaction is rolled
\* back with the key UPDATE in it, and the request fails.
RaceCommit(w) ==
    /\ sessions[w].pc = "commit"
    /\ IF sessions[w].new_record # <<>>
          /\ \E r \in 1..Len(registry) :
                registry[r].image_hash = sessions[w].new_record[1].image_hash
       THEN /\ sessions' = [sessions EXCEPT ![w] =
                   [@ EXCEPT !.pc = "done",
                             !.resp = [status |-> "error", error |-> "IntegrityError"]]]
            /\ UNCHANGED <<users, registry>>
       ELSE /\ users' = {IF u.username = sessions[w].username
                         THEN [u EXCEPT !.encrypted_key_data =
                                   sessions[w].user[1].encrypted_key_data]
                         ELSE u : u \in users}
            /\ registry' = IF sessions[w].new_record # <<>>
                           THEN Append(registry, sessions[w].new_record[1])
                           ELSE registry
            /\ sessions' = [sessions EXCEPT ![w] =
                   [@ EXCEPT !.pc = "done",
                             !.resp = [status |-> "success",
                                       download_url |-> sessions[w].img_hash]]]
    /\ op' = "stamp"
    /\ UNCHANGED embedded
    /\ RaceFrame

NextRace ==
    \E w \in Workers :
        \/ RaceLookup(w)
        \/ RaceScan(w)
        \/ RaceEmbed(w)
        \/ RaceAdd(w)
        \/ RaceCommit(w)

SpecRace == RaceInit /\ [][NextRace]_vars

-----------------------------------------------------------------------------
(* Properties of the codec runs (Spec).                                    *)

\* the extract call that mirrors the embed call: the reference vector
\* embed returned, the payload's length, some secret
MirrorsEmbed ==
    /\ op = "extract"
    /\ xargs.key = "returned"
    /\ Len(payload) >= 1
    /\ xargs.length = <<Len(payload)>>

Capacity == sub_band_len(channel) - start_pos

\* C1: round trip.  Whenever a payload of 1 <= L <= N - 100 bits has been
\* embedded, extract on embed's output with the returned reference vector,
\* the same L and the same secret returns exactly the payload.
RoundTrip ==
    (MirrorsEmbed /\ xargs.secret_key = secret /\ Len(payload) <= Capacity)
        => (ext.status = "ok" /\ ext.bits = payload)

\* C2: capacity overflow.  An embed call whose payload is longer than
\* N - 100 bits ends in a CapacityError.
CapacityOverflowRaises ==
    (op # "idle" /\ Len(payload) > Capacity) => emb.status = "CapacityError"

\* C3 as claimed: key sensitivity.  Extracting with a secret other than the
\* one embedded with never returns the embedded bits.
KeySensitivity ==
    (MirrorsEmbed /\ xargs.secret_key # secret)
        => ~(ext.status = "ok" /\ ext.bits = payload)

\* two secret strings with the same sum of code points
SameSeed(k1, k2) == SumSeq(k1) = SumSeq(k2)

\* C3 as amended: a secret other than the embedding one, but with the same
\* sum of code points, extracts exactly what the embedding secret extracts
\* from the same channel, reference vector and length.
SameSeedSameDecode ==
    (op = "extract" /\ xargs.secret_key # secret /\ SameSeed(xargs.secret_key, secret))
        => ext = extract_channel(emb.watermarked_channel, RefVector(xargs.key),
                                 alpha * Unit, xargs.length, StrKey(secret))

\* C3 witness: the wrong secret "ba" (or "ab") has decoded a payload with
\* a 1 in it that was embedded under "ab" (or "ba")
SameSeedDecodes ==
    /\ MirrorsEmbed
    /\ xargs.secret_key # secret
    /\ SameSeed(xargs.secret_key, secret)
    /\ \E i \in 1..Len(payload) : payload[i] = 1
    /\ ext.status = "ok"
    /\ ext.bits = payload

\* C5: extract never fails hard.  Every extract call returns, and returns
\* exactly payloadBitLength bits.
ExtractNeverFails ==
    op = "extract"
        => /\ ext.status = "ok"
           /\ xargs.length # <<>> => Len(ext.bits) = xargs.length[1]

-----------------------------------------------------------------------------
(* Properties of the permutation runs (SpecPerm).                          *)

IsBijection(indices, length) ==
    /\ Len(indices) = length
    /\ \A v \in 0..(length - 1) :
          Cardinality({p \in 1..Len(indices) : indices[p] = v}) = 1

\* C4: every call returns a sequence of exactly `length` entries in which
\* each index of [0, length) occurs once, and two calls with the same
\* length and secret return the same sequence, whatever calls lie between.
PermuteContract ==
    \A i \in 1..Len(calls) :
       /\ IsBijection(calls[i].indices, calls[i].length)
       /\ \A j \in 1..Len(calls) :
             (calls[j].length = calls[i].length /\ calls[j].seed_key = calls[i].seed_key)
                 => calls[j].indices = calls[i].indices

\* C4 witness: the same call, with secret "ab", made twice with a call
\* with secret "c" between them
PermuteRepeated ==
    /\ Len(calls) >= 3
    /\ calls[1].length >= 3
    /\ calls[3].length = calls[1].length
    /\ calls[3].seed_key = calls[1].seed_key
    /\ calls[2].seed_key = StrKey(<<99>>)
    /\ calls[1].seed_key = StrKey(<<97, 98>>)
    /\ calls[2].length >= 2

-----------------------------------------------------------------------------
(* Properties of the utility runs (SpecUtil).                              *)

\* bit positions at which two hexadecimal digits differ
NibbleDiff(c1, c2) ==
    Cardinality({k \in 0..3 :
        (hex_value(c1) \div (2 ^ k)) % 2 # (hex_value(c2) \div (2 ^ k)) % 2})

RECURSIVE DiffBits(_, _)
DiffBits(h1, h2) ==
    IF h1 = <<>> THEN 0
    ELSE NibbleDiff(Head(h1), Head(h2)) + DiffBits(Tail(h1), Tail(h2))

\* C9: the distance of two fingerprints is 100 when their lengths differ
\* and otherwise the number of differing bits of their 4-bits-per-digit
\* expansions; so fingerprints of different length are never duplicates,
\* a fingerprint is at distance 0 from itself, and distance is symmetric.
HammingContract ==
    op = "distance"
        => /\ Len(arg.hash1) # Len(arg.hash2) => (res = 100 /\ ~(res < 10))
           /\ Len(arg.hash1) = Len(arg.hash2) => res = DiffBits(arg.hash1, arg.hash2)
           /\ arg.hash1 = arg.hash2 => res = 0
           /\ res = calculate_hamming_distance(arg.hash2, arg.hash1)

\* C9 witness: "0f" against "f0", 8 bits apart
HammingCounted ==
    /\ op = "distance"
    /\ arg.hash1 = <<48, 102>>
    /\ arg.hash2 = <<102, 48>>
    /\ res = 8

\* C10: payload encoding round trip.  A text of n characters encodes to
\* exactly 8 * n bits, and decoding them returns the text.
EncodingRoundTrip ==
    op = "decode" => (Len(res.bits) = 8 * Len(arg.text) /\ res.text = arg.text)

-----------------------------------------------------------------------------
(* Properties of the web layer (SpecWeb).                                  *)

\* C6: registry invariant.  No two registry entries whose fingerprints are
\* less than 10 bits apart belong to different owners.
RegistryInvariant ==
    \A i, j \in 1..Len(registry) :
       calculate_hamming_distance(registry[i].image_hash, registry[j].image_hash) < 10
           => registry[i].owner_uid = registry[j].owner_uid

\* C6 witness: two owners hold entries, and a stamp request for a picture
\* that duplicates an entry of somebody else has just been refused
RegistryContested ==
    /\ op = "stamp"
    /\ resp.status = "error"
    /\ resp.error = "COPYRIGHT CONFLICT"
    /\ \E i, j \in 1..Len(registry) : registry[i].owner_uid # registry[j].owner_uid

\* C7: double-spend rejection.  A stamp request of a registered user whose
\* picture is less than 10 bits from an entry owned by somebody else is
\* refused with a conflict.  (Read after the request: a refusal and a
\* match with an own entry leave the registry as it was, and an insert
\* adds an entry of the requester.)
DoubleSpendRejected ==
    (/\ op = "stamp"
     /\ user_named(req.username) # <<>>
     /\ \E r \in 1..Len(registry) :
           /\ registry[r].owner_uid # user_named(req.username)[1].user_uid
           /\ calculate_hamming_distance(req.img_hash, registry[r].image_hash) < 10)
        => (resp.status = "error" /\ resp.error = "COPYRIGHT CONFLICT")

\* C8: single key slot.  Every user's stored key material is the reference
\* vector of the last embed done for that user, and absent if there was
\* none; so a later embed overwrites it and a stamp of one user leaves the
\* key of every other user alone.
KeySlot ==
    \A u \in users : get_key_data(u) = embedded[u.username]

\* C8 witness: a user who holds the entry of one picture has just stamped
\* another picture, and the stored key is the reference vector of that one
KeyOverwritten ==
    /\ op = "stamp"
    /\ resp.status = "success"
    /\ \E u \in users :
          /\ u.username = req.username
          /\ \E r \in 1..Len(registry) :
                /\ registry[r].owner_uid = u.user_uid
                /\ registry[r].image_hash # req.img_hash
          /\ \E p \in Pictures :
                /\ compute_dhash(p.diff_hash) = req.img_hash
                /\ get_key_data(u) = <<extract_target(p.y)>>
          /\ \E v \in users : v # u /\ get_key_data(v) # <<>>
                                    /\ get_key_data(v) # get_key_data(u)


-----------------------------------------------------------------------------
(* The frame of the embedding loop.                                        *)

\* num_repeats of the embed call of this run (core.py:37-39)
Repeats ==
    LET n == (sub_band_len(channel) - start_pos) \div Len(payload)
    IN  IF n < 1 THEN 1 ELSE n

\* the message positions i whose permuted slot start_pos + i exists
UsedPositions ==
    {i \in 0..(Repeats * Len(payload) - 1) : start_pos + i < sub_band_len(channel)}

\* C11: after an embed call the returned reference vector is the whole
\* level-2 sub-band of the channel as it was before embedding (length N),
\* and the vector the loop leaves differs from it only at the slots
\* permutation[100 + i], i a position of the repeated payload: there by
\* exactly +alpha where the repeated payload bit is 1 and exactly -alpha
\* where it is 0.  No slot is written twice; the first 100 permuted slots
\* and every slot past the repeated payload are as they were.
EmbedFrame ==
    (op = "embed" /\ emb.status = "ok") =>
        \A perm \in {get_scrambled_indices(sub_band_len(channel), StrKey(secret))} :
            /\ emb.original_coeffs = extract_target(channel)
            /\ Len(emb.original_coeffs) = sub_band_len(channel)
            /\ Len(emb.flat_target) = sub_band_len(channel)
            /\ \A i, j \in UsedPositions :
                  i # j => perm[start_pos + i + 1] # perm[start_pos + j + 1]
            /\ \A i \in UsedPositions :
                  LET t == perm[start_pos + i + 1] + 1
                  IN  emb.flat_target[t] - emb.original_coeffs[t] =
                          IF payload[(i % Len(payload)) + 1] = 1
                          THEN alpha * Unit ELSE -(alpha * Unit)
            /\ \A p \in 0..(sub_band_len(channel) - 1) :
                  (p < start_pos \/ p - start_pos \notin UsedPositions)
                      => emb.flat_target[perm[p + 1] + 1]
                             = emb.original_coeffs[perm[p + 1] + 1]

\* C11 witness: an embed call on a sub-band with more than 100 slots has
\* raised one slot by alpha and lowered another by alpha, and has left the
\* first permuted slot alone
EmbedFrameWritten ==
    /\ op = "embed"
    /\ emb.status = "ok"
    /\ sub_band_len(channel) > start_pos + 1
    /\ \E t1, t2 \in 1..Len(emb.flat_target) :
          /\ emb.flat_target[t1] = emb.original_coeffs[t1] + alpha * Unit
          /\ emb.flat_target[t2] = emb.original_coeffs[t2] - alpha * Unit
    /\ Cardinality({t \in 1..Len(emb.flat_target) :
                       emb.flat_target[t] # emb.original_coeffs[t]})
           = Cardinality(UsedPositions)
    /\ Cardinality(UsedPositions) >= 2


-----------------------------------------------------------------------------
(* Two stamp requests at once.                                             *)

\* both requests have been answered
RaceDone == \A w \in Workers : sessions[w].pc = "done"

\* the two requests come from different registered users, for the same
\* picture or for pictures whose fingerprints are less than 10 bits apart
RaceContested ==
    /\ sessions[1].user # <<>>
    /\ sessions[2].user # <<>>
    /\ sessions[1].username # sessions[2].username
    /\ calculate_hamming_distance(compute_dhash(sessions[1].picture.diff_hash),
                                  compute_dhash(sessions[2].picture.diff_hash)) < 10

\* C12: when two stamp requests of different users for the same picture or
\* for near-duplicate pictures interleave, at most one of the two users is
\* an owner in the registry afterwards, and at most one of the two
\* requests has succeeded.
RaceSingleWinner ==
    (RaceDone /\ RaceContested) =>
        /\ Cardinality({registry[r].owner_uid : r \in 1..Len(registry)}) <= 1
        /\ Cardinality({w \in Workers : sessions[w].resp.status = "success"}) <= 1


-----------------------------------------------------------------------------
(* Refused stamp requests.                                                 *)

\* the rows of the registry, as a set
RegistryEntries(reg) == {reg[r] : r \in 1..Len(reg)}

\* every user's stored key material, by username
KeyMaterial(table) == {<<u.username, get_key_data(u)>> : u \in table}

\* C13: a stamp request that is answered with a registry conflict, or
\* that names a user who is not registered, leaves the persisted state as
\* it was: the registry entries and every user's stored key material are
\* the same after the request as before it.
RefusedStampFrame ==
    [][(/\ op' = "stamp"
        /\ resp'.status = "error"
        /\ resp'.error \in {"COPYRIGHT CONFLICT", "User not found. Register first."})
          => /\ RegistryEntries(registry') = RegistryEntries(registry)
             /\ KeyMaterial(users') = KeyMaterial(users)]_vars

\* C13 witness: a request was refused with a registry conflict, and the
\* refused user has a key stored from an earlier stamp of another picture
RefusedStampSeen ==
    /\ op = "stamp"
    /\ resp.status = "error"
    /\ resp.error = "COPYRIGHT CONFLICT"
    /\ \E u \in users :
          /\ u.username = req.username
          /\ get_key_data(u) # <<>>
          /\ \E r \in 1..Len(registry) : registry[r].owner_uid = u.user_uid
    /\ \E r \in 1..Len(registry) :
          /\ calculate_hamming_distance(req.img_hash, registry[r].image_hash) < 10
          /\ \A u \in users : u.username = req.username
                                 => registry[r].owner_uid # u.user_uid

=============================================================================
